---- MODULE Spec2Model ----
(***************************************************************************)
(* Multilinear extensions over packed binary fields and the batch          *)
(* polynomial commitment adapter (BatchPCS) built on top of them.          *)
(*                                                                         *)
(* Three specifications share this module:                                 *)
(*   Spec    - one commit / observe / prove / verify run of BatchPCS       *)
(*   SpecMLE - the operations of MultilinearExtension applied to inputs    *)
(*             drawn from bounded sets                                     *)
(*   SpecPE  - the operations of MultilinearExtension<P> that produce or   *)
(*             consume values of a packed extension field PE               *)
(***************************************************************************)
EXTENDS Integers, Sequences, FiniteSets, TLC

(***************************************************************************)
(* Bounds of the model.                                                    *)
(***************************************************************************)
\* largest n_vars + log_num_polys of a BatchPCS instance
MaxTotalVars == 2
\* largest number of variables of an MLE in SpecMLE
MaxVars == 3
\* largest LOG_WIDTH of the packed field P
MaxLogWidth == 2
\* longest sequence of polynomials handed to batch_evaluate
MaxBatch == 2

\* width of usize: 2usize.checked_pow(k) is None from k = 64 on
USIZE_BITS == 64

(***************************************************************************)
(* The field.  FE is the tower field of four elements {0, 1, x, x + 1}     *)
(* with x * x = x + 1, written as the integers 0..3 (bit 1 is the          *)
(* coefficient of x).  P::Scalar is FE itself (the trivial extension), as  *)
(* in the tests of both files.  Characteristic two: subtraction is         *)
(* addition.                                                               *)
(***************************************************************************)
FieldFE == 0..3
ZERO == 0
ONE == 1

FAdd(a, b) ==
    LET a0 == a % 2
        a1 == a \div 2
        b0 == b % 2
        b1 == b \div 2
    IN  ((a0 + b0) % 2) + 2 * ((a1 + b1) % 2)

FSub(a, b) == FAdd(a, b)

FMul(a, b) ==
    LET a0 == a % 2
        a1 == a \div 2
        b0 == b % 2
        b1 == b \div 2
        lo == (a0 * b0 + a1 * b1) % 2
        hi == (a1 * b0 + a0 * b1 + a1 * b1) % 2
    IN  lo + 2 * hi

(***************************************************************************)
(* Results and errors.                                                     *)
(***************************************************************************)
Ok(v) == [tag |-> "Ok", val |-> v]
Err(e) == [tag |-> "Err", err |-> e]
IsOk(r) == r.tag = "Ok"
IsErr(r) == r.tag = "Err"

TooManyVariables == [kind |-> "TooManyVariables"]
PowerOfTwoLengthRequired == [kind |-> "PowerOfTwoLengthRequired"]
IncorrectQuerySize(expected) == [kind |-> "IncorrectQuerySize", expected |-> expected]
ArgumentRangeError(arg, lo, hi) ==
    [kind |-> "ArgumentRangeError", arg |-> arg, lo |-> lo, hi |-> hi]
NumPolys == [kind |-> "NumPolys"]
NumVars == [kind |-> "NumVars"]
NumVarsInnerOuter(n_inner, n, m) ==
    [kind |-> "NumVarsInnerOuter", n_inner |-> n_inner, n_vars |-> n, log_num_polys |-> m]
InnerPCS(e) == [kind |-> "InnerPCS", source |-> e]
Polynomial(e) == [kind |-> "Polynomial", source |-> e]

(***************************************************************************)
(* Integer helpers.  Rust slices are indexed from 0, sequences from 1.     *)
(***************************************************************************)
Pow2(k) == 2 ^ k

is_power_of_two(v) == \E k \in 0..v : Pow2(k) = v

\* 63 - leading_zeros(v): the position of the highest set bit
RECURSIVE log2(_)
log2(v) == IF v <= 1 THEN 0 ELSE 1 + log2(v \div 2)

\* p3_util::log2_strict_usize, called on powers of two only
log2_strict_usize(v) == log2(v)

At(s, i) == s[i + 1]
SetAt(s, i, x) == [s EXCEPT ![i + 1] = x]
Bit(i, j) == (i \div Pow2(j)) % 2

(***************************************************************************)
(* Packed slices: a slice of packed cells, each a sequence of WIDTH        *)
(* scalars.  Scalar i lives in cell i / WIDTH, lane i mod WIDTH.           *)
(***************************************************************************)
get_packed_slice(packed, W, i) == packed[(i \div W) + 1][(i % W) + 1]

set_packed_slice(packed, W, i, x) ==
    [packed EXCEPT ![(i \div W) + 1] = [@ EXCEPT ![(i % W) + 1] = x]]

iter_packed_slice(packed, W) ==
    [i \in 1..(Len(packed) * W) |-> get_packed_slice(packed, W, i - 1)]

\* the packed cells holding a sequence of scalars whose length is a multiple of W
PackScalars(scalars, W) ==
    [c \in 1..(Len(scalars) \div W) |-> SubSeq(scalars, (c - 1) * W + 1, c * W)]

(***************************************************************************)
(* Tensor expansion.                                                       *)
(***************************************************************************)
\* the inner loop without `result[j] -= prod`
RECURSIVE ExpandInnerNoSub(_, _, _, _)
ExpandInnerNoSub(result, mid, v, j) ==
    IF j >= mid THEN result
    ELSE LET prod == FMul(At(result, j), v)
         IN  ExpandInnerNoSub(SetAt(result, mid + j, prod), mid, v, j + 1)

\* for j in 0..mid { prod = result[j] * v; result[j] -= prod; result[mid + j] = prod }
RECURSIVE ExpandInner(_, _, _, _)
ExpandInner(result, mid, v, j) ==
    IF j >= mid THEN result
    ELSE LET prod == FMul(At(result, j), v)
             r1 == SetAt(result, j, FSub(At(result, j), prod))
             r2 == SetAt(r1, mid + j, prod)
         IN  ExpandInner(r2, mid, v, j + 1)

\* result.copy_within(0..mid, mid)
copy_within(result, mid) ==
    [k \in 1..Len(result) |->
        IF k > mid /\ k <= 2 * mid THEN result[k - mid] ELSE result[k]]

\* for (i, v) in query.iter().enumerate() { ... }
RECURSIVE ExpandOuter(_, _, _)
ExpandOuter(result, query, i) ==
    IF i >= Len(query) THEN result
    ELSE LET mid == Pow2(i)
         IN  ExpandOuter(ExpandInner(copy_within(result, mid), mid, At(query, i), 0),
                         query, i + 1)

expand_query(query) ==
    IF Len(query) >= USIZE_BITS THEN Err(TooManyVariables)
    ELSE LET size == Pow2(Len(query))
             zeroed == [k \in 1..size |-> ZERO]
         IN  Ok(ExpandOuter(SetAt(zeroed, 0, ONE), query, 0))

\* the product over j of (if i & (1 << j) == 0 { ONE - v } else { v })
RECURSIVE EvalBasisFrom(_, _, _)
EvalBasisFrom(query, i, j) ==
    IF j >= Len(query) THEN ONE
    ELSE FMul(IF Bit(i, j) = 0 THEN FSub(ONE, At(query, j)) ELSE At(query, j),
              EvalBasisFrom(query, i, j + 1))

eval_basis(query, i) == EvalBasisFrom(query, i, 0)

expand_query_naive(query) ==
    IF Len(query) >= USIZE_BITS THEN Err(TooManyVariables)
    ELSE Ok([k \in 1..Pow2(Len(query)) |-> eval_basis(query, k - 1)])

\* a.zip(b).map(|(a_i, b_i)| a_i * b_i).sum()
RECURSIVE InnerProductFrom(_, _, _)
InnerProductFrom(a, b, k) ==
    IF k > Len(a) \/ k > Len(b) THEN ZERO
    ELSE FAdd(FMul(a[k], b[k]), InnerProductFrom(a, b, k + 1))

inner_product_unchecked(a, b) == InnerProductFrom(a, b, 1)

(***************************************************************************)
(* MultilinearExtension: [mu, evals], evals a sequence of packed cells of  *)
(* the packed field of width W = 2^logW.                                   *)
(***************************************************************************)
MLE(mu, evals) == [mu |-> mu, evals |-> evals]

\* from_values with the packed width forgotten: mu = log2(v.len())
from_values_width_forgotten(v, W) ==
    IF ~is_power_of_two(Len(v)) THEN Err(PowerOfTwoLengthRequired)
    ELSE Ok(MLE(log2(Len(v)), v))

from_values(v, W) ==
    IF ~is_power_of_two(Len(v)) THEN Err(PowerOfTwoLengthRequired)
    ELSE Ok(MLE(log2(Len(v) * W), v))

from_values_slice(v, W) ==
    IF ~is_power_of_two(Len(v)) THEN Err(PowerOfTwoLengthRequired)
    ELSE Ok(MLE(log2(Len(v) * W), v))

evaluate(self, W, q) ==
    IF self.mu # Len(q) THEN Err(IncorrectQuerySize(self.mu))
    ELSE LET basis_eval == expand_query(q)
         IN  IF IsErr(basis_eval) THEN basis_eval
             ELSE Ok(inner_product_unchecked(basis_eval.val,
                                             iter_packed_slice(self.evals, W)))

\* zeroed_vec(len) / vec![P::default(); len]
zeroed_vec(len, W) == [k \in 1..len |-> [lane \in 1..W |-> ZERO]]

\* the item batch_evaluate's closure yields for poly, without its check of poly.mu
BatchItemUnchecked(basis_eval, n, poly, W) ==
    IF IsErr(basis_eval) THEN basis_eval
    ELSE Ok(inner_product_unchecked(basis_eval.val, iter_packed_slice(poly.evals, W)))

\* the item batch_evaluate's closure yields for poly; basis_eval = expand_query(q)
\* is computed once, before the first item, and n = q.len()
BatchItem(basis_eval, n, poly, W) ==
    IF IsErr(basis_eval) THEN basis_eval
    ELSE IF poly.mu # n THEN Err(IncorrectQuerySize(poly.mu))
    ELSE Ok(inner_product_unchecked(basis_eval.val, iter_packed_slice(poly.evals, W)))

\* chunks that all start at the first cell
ChunksFromStart(evals, size, n) ==
    [t \in 1..(Len(evals) \div size) |-> MLE(n, SubSeq(evals, 1, size))]

\* self.evals.chunks_exact(size).map(|evals| MultilinearExtension { mu: n, evals })
Chunks(evals, size, n) ==
    [t \in 1..(Len(evals) \div size) |-> MLE(n, SubSeq(evals, (t - 1) * size + 1, t * size))]

iter_subpolynomials_high(self, W, n) ==
    LET log_width == log2(W)
    IN  IF n < log_width \/ n > self.mu
        THEN Err(ArgumentRangeError("n_vars", log_width, self.mu))
        ELSE Ok(Chunks(self.evals, Pow2(n - log_width), n))

\* the loop body with the sum dropped: value = basis_eval * subpoly_eval_i
RECURSIVE OverwriteSubpoly(_, _, _, _, _)
OverwriteSubpoly(result_evals, WE, scalars, basis_eval, i) ==
    IF i >= Len(scalars) THEN result_evals
    ELSE OverwriteSubpoly(
             set_packed_slice(result_evals, WE, i, FMul(basis_eval, At(scalars, i))),
             WE, scalars, basis_eval, i + 1)

\* for (i, subpoly_eval_i) in iter_packed_slice(subpoly.evals()).enumerate() {
\*     value = get_packed_slice(&result_evals, i); value += basis_eval * subpoly_eval_i;
\*     set_packed_slice(&mut result_evals, i, value) }
RECURSIVE AccumulateSubpoly(_, _, _, _, _)
AccumulateSubpoly(result_evals, WE, scalars, basis_eval, i) ==
    IF i >= Len(scalars) THEN result_evals
    ELSE LET value == FAdd(get_packed_slice(result_evals, WE, i),
                           FMul(basis_eval, At(scalars, i)))
         IN  AccumulateSubpoly(set_packed_slice(result_evals, WE, i, value),
                               WE, scalars, basis_eval, i + 1)

\* subpolys.zip(basis_eval).for_each(...)
RECURSIVE PartialHighLoop(_, _, _, _, _, _)
PartialHighLoop(result_evals, WE, subpolys, W, basis_eval, t) ==
    IF t > Len(subpolys) \/ t > Len(basis_eval) THEN result_evals
    ELSE PartialHighLoop(
             AccumulateSubpoly(result_evals, WE,
                               iter_packed_slice(subpolys[t].evals, W), basis_eval[t], 0),
             WE, subpolys, W, basis_eval, t + 1)

\* W is the width of P (self), WE the width of PE (the result)
evaluate_partial_high(self, W, WE, q) ==
    IF self.mu < Len(q) THEN Err(IncorrectQuerySize(self.mu))
    ELSE IF Pow2(self.mu - Len(q)) < WE THEN Err(IncorrectQuerySize(self.mu))
    ELSE LET basis_eval == expand_query(q)
         IN  IF IsErr(basis_eval) THEN basis_eval
             ELSE LET result_evals == zeroed_vec(Pow2(self.mu - Len(q)) \div WE, WE)
                      subpolys == iter_subpolynomials_high(self, W, self.mu - Len(q))
                  IN  IF IsErr(subpolys) THEN subpolys
                      ELSE from_values(
                               PartialHighLoop(result_evals, WE, subpolys.val, W, basis_eval.val, 1),
                               WE)

\* a panic of the call: an index out of the bounds of a slice or of a packed value
Panic == [tag |-> "Panic"]
IsPanic(r) == r.tag = "Panic"

IncorrectOutputPolynomialSize(expected) ==
    [kind |-> "IncorrectOutputPolynomialSize", expected |-> expected]

\* MultilinearExtension::<PE>::zeros(n_vars); W is the width of the type built
zeros(n_vars, W) ==
    IF n_vars < log2_strict_usize(W)
    THEN Err(ArgumentRangeError("n_vars", log2_strict_usize(W), 32))
    ELSE Ok(MLE(n_vars, zeroed_vec(Pow2(n_vars - log2(W)), W)))

\* for (k, &basis_eval_k) in basis_evals.iter().enumerate() {
\*     old_slice_idx = h << q.len() | k;
\*     result_eval += basis_eval_k * get_packed_slice(&self.evals, old_slice_idx) }
\* where h = i * P::WIDTH + j and n = q.len(); called when every index is in bounds
RECURSIVE PartialLowScalar(_, _, _, _, _, _)
PartialLowScalar(self, W, basis_evals, n, h, k) ==
    IF k >= Len(basis_evals) THEN ZERO
    ELSE FAdd(FMul(At(basis_evals, k), get_packed_slice(self.evals, W, h * Pow2(n) + k)),
              PartialLowScalar(self, W, basis_evals, n, h, k + 1))

\* the loops of evaluate_partial_low_into leave the bounds of self.evals in
\* get_packed_slice, or the lanes of a PE value in packed_result_eval.set(j, ..)
PartialLowPanics(self, W, WE, n, out) ==
    \E i \in 0..(Len(out.evals) - 1), j \in 0..(W - 1) :
        \/ j >= WE
        \/ (i * W + j) * Pow2(n) + Pow2(n) - 1 >= Len(self.evals) * W

\* for (i, packed_result_eval) in out.evals.iter_mut().enumerate() {
\*     (0..P::WIDTH).for_each(|j| { ...; packed_result_eval.set(j, result_eval) }) }
PartialLowLoop(self, W, WE, basis_evals, n, out) ==
    [i \in 1..Len(out.evals) |->
        [lane \in 1..WE |->
            IF lane <= W
            THEN PartialLowScalar(self, W, basis_evals, n, (i - 1) * W + (lane - 1), 0)
            ELSE out.evals[i][lane]]]

\* returns [res, out]: the result of the call and out as the call leaves it;
\* W is the width of P (self), WE the width of PE (out)
evaluate_partial_low_into(self, W, WE, query, out) ==
    IF self.mu < Len(query) THEN [res |-> Err(IncorrectQuerySize(self.mu)), out |-> out]
    ELSE IF out.mu # self.mu - Len(query)
    THEN [res |-> Err(IncorrectOutputPolynomialSize(self.mu - Len(query))), out |-> out]
    ELSE LET basis_evals == expand_query(query)
         IN  IF IsErr(basis_evals) THEN [res |-> basis_evals, out |-> out]
             ELSE IF PartialLowPanics(self, W, WE, Len(query), out)
             THEN [res |-> Panic, out |-> out]
             ELSE [res |-> Ok("unit"),
                   out |-> MLE(out.mu, PartialLowLoop(self, W, WE, basis_evals.val,
                                                      Len(query), out))]

evaluate_partial_low(self, W, WE, query) ==
    IF self.mu < Len(query) THEN Err(IncorrectQuerySize(self.mu))
    ELSE LET result == zeros(self.mu - Len(query), WE)
         IN  IF IsErr(result) THEN result
             ELSE LET into == evaluate_partial_low_into(self, W, WE, query, result.val)
                  IN  IF IsOk(into.res) THEN Ok(into.out) ELSE into.res

\* self.evals[cell].iter().take(count): the first lanes of one packed value
TakeLanes(packed, cell, count) == SubSeq(At(packed, cell), 1, count)

iter_subcube_scalars(self, W, n_vars, index) ==
    IF n_vars > self.mu THEN Err(ArgumentRangeError("n_vars", 0, self.mu + 1))
    ELSE LET max_index == Pow2(self.mu - n_vars)
             log_width == log2_strict_usize(W)
         IN  IF index >= max_index THEN Err(ArgumentRangeError("index", 0, max_index))
             ELSE IF n_vars < log_width
             THEN Ok(TakeLanes(self.evals, (index * Pow2(n_vars)) \div W, Pow2(n_vars)))
             ELSE Ok(iter_packed_slice(
                         SubSeq(self.evals, ((index * Pow2(n_vars)) \div W) + 1,
                                ((index + 1) * Pow2(n_vars)) \div W),
                         W))

\* W is the width of P (self), WE the width of PE (expanded_query)
inner_prod_subcube(self, W, WE, index, expanded_query) ==
    IF ~is_power_of_two(Len(expanded_query)) THEN Err(PowerOfTwoLengthRequired)
    ELSE LET q_vars == log2_strict_usize(Len(expanded_query))
             scalars == iter_subcube_scalars(self, W, q_vars, index)
         IN  IF IsErr(scalars) THEN scalars
             ELSE Ok(inner_product_unchecked(iter_packed_slice(expanded_query, WE),
                                             scalars.val))

\* for i in 0..1 << vars { set_packed_slice(dst, i, get_packed_slice(evals, i).into()) }
\* evals is a slice of P, dst a slice of PE; returns [res, dst]
RECURSIVE SubcubeCopy(_, _, _, _, _, _)
SubcubeCopy(evals, W, dst, WE, count, i) ==
    IF i >= count THEN [res |-> Ok("unit"), dst |-> dst]
    ELSE IF i \div W >= Len(evals) THEN [res |-> Panic, dst |-> dst]
    ELSE SubcubeCopy(evals, W, set_packed_slice(dst, WE, i, get_packed_slice(evals, W, i)),
                     WE, count, i + 1)

\* returns [res, dst]: the result of the call and dst as the call leaves it;
\* W is the width of P (self), WE the width of PE (dst)
subcube_evals(self, W, WE, vars, index, dst) ==
    IF vars > self.mu
    THEN [res |-> Err(ArgumentRangeError("vars", 0, self.mu + 1)), dst |-> dst]
    ELSE IF Len(dst) * WE # Pow2(vars)
    THEN [res |-> Err(ArgumentRangeError("dst.len()", Pow2(vars) \div WE,
                                         (Pow2(vars) \div WE) + 1)),
          dst |-> dst]
    ELSE IF index >= Pow2(self.mu - vars)
    THEN [res |-> Err(ArgumentRangeError("index", 0, Pow2(self.mu - vars))), dst |-> dst]
    ELSE LET start == (index * Pow2(vars)) \div WE
             end == ((index + 1) * Pow2(vars)) \div WE
         IN  IF end > Len(self.evals) THEN [res |-> Panic, dst |-> dst]
             ELSE SubcubeCopy(SubSeq(self.evals, start + 1, end), W, dst, WE, Pow2(vars), 0)

(***************************************************************************)
(* merge_polynomials: concatenation of the packed evaluation buffers.      *)
(***************************************************************************)
\* dst[start..start + src.len()].copy_from_slice(src)
copy_from_slice(dst, start, src) ==
    [k \in 1..Len(dst) |->
        IF k > start /\ k <= start + Len(src) THEN src[k - start] ELSE dst[k]]

\* the same loop, writing polys[u] to the slot counted from the far end
RECURSIVE MergeLoopReversed(_, _, _, _)
MergeLoopReversed(packed_merged, polys, poly_packed_size, u) ==
    IF u >= Len(polys) THEN packed_merged
    ELSE MergeLoopReversed(
             copy_from_slice(packed_merged, (Len(polys) - 1 - u) * poly_packed_size,
                             At(polys, u).evals),
             polys, poly_packed_size, u + 1)

\* for (u, poly) in polys.iter().enumerate() { packed_merged[u * size..(u + 1) * size] = poly.evals }
RECURSIVE MergeLoop(_, _, _, _)
MergeLoop(packed_merged, polys, poly_packed_size, u) ==
    IF u >= Len(polys) THEN packed_merged
    ELSE MergeLoop(copy_from_slice(packed_merged, u * poly_packed_size, At(polys, u).evals),
                   polys, poly_packed_size, u + 1)

\* what merge_polynomials computes once its checks have passed: zeroed_vec
\* allocates the merge buffer, the loop of copy_from_slice fills it
MergeWork(polys) ==
    IF Len(polys) = 0 \/ ~is_power_of_two(Len(polys)) THEN <<>>
    ELSE IF \E u \in 1..Len(polys) : polys[u].mu # polys[1].mu THEN <<>>
    ELSE <<"zeroed_vec", "copy_from_slice">>

merge_polynomials(polys, logW) ==
    IF Len(polys) = 0 \/ ~is_power_of_two(Len(polys)) THEN Err(NumPolys)
    ELSE LET n == polys[1].mu
             m == log2_strict_usize(Len(polys))
         IN  IF \E u \in 1..Len(polys) : polys[u].mu # n THEN Err(NumVars)
             ELSE LET poly_packed_size == Pow2(n - logW)
                      packed_merged ==
                          MergeLoop(zeroed_vec(poly_packed_size * Pow2(m), Pow2(logW)),
                                    polys, poly_packed_size, 0)
                      made == from_values(packed_merged, Pow2(logW))
                  IN  IF IsErr(made) THEN Err(Polynomial(made.err)) ELSE made

(***************************************************************************)
(* The challenger.  Its state is a register of ChDigits field elements;    *)
(* sample returns the lowest one and rotates the register, observe adds a  *)
(* digest of what is observed.  Equal states give equal samples.           *)
(***************************************************************************)
ChDigits == MaxTotalVars + 1
ChModulus == 4 ^ ChDigits

NewChallenger(state) == [state |-> state, log |-> <<>>]

ChSample(state) == state % 4
ChStep(state) == (state \div 4) + (state % 4) * (4 ^ (ChDigits - 1))

RECURSIVE SumSeq(_, _)
SumSeq(s, k) == IF k > Len(s) THEN 0 ELSE s[k] * k + SumSeq(s, k + 1)

Digest(commitment) ==
    commitment.mu + SumSeq(iter_packed_slice(commitment.evals, Pow2(commitment.logW)), 1)

observe(ch, x) ==
    [state |-> (ch.state + 1 + Digest(x)) % ChModulus,
     log |-> Append(ch.log, [op |-> "observe"])]

RECURSIVE SampleFrom(_, _)
SampleFrom(state, k) ==
    IF k = 0 THEN <<>> ELSE <<ChSample(state)>> \o SampleFrom(ChStep(state), k - 1)

RECURSIVE StepTimes(_, _)
StepTimes(state, k) == IF k = 0 THEN state ELSE StepTimes(ChStep(state), k - 1)

\* sample_vec(k): the k samples and the challenger afterwards
sample_vec(ch, k) ==
    [out |-> SampleFrom(ch.state, k),
     ch |-> [state |-> StepTimes(ch.state, k),
             log |-> Append(ch.log, [op |-> "sample_vec", n |-> k])]]

(***************************************************************************)
(* The inner PCS: an ideal scheme for one polynomial of inner_n_vars       *)
(* variables.  The commitment binds the polynomial, a proof binds the      *)
(* point and the transcript it was made for, and verification accepts      *)
(* exactly the evaluation of the committed polynomial at the point.        *)
(***************************************************************************)
InnerError(what) == [kind |-> "Inner", what |-> what]

inner_commit(inner_n_vars, logW, polys) ==
    IF Len(polys) # 1 THEN Err(InnerError("NumPolys"))
    ELSE IF polys[1].mu # inner_n_vars THEN Err(InnerError("NumVars"))
    ELSE Ok([commitment |-> [mu |-> polys[1].mu, evals |-> polys[1].evals, logW |-> logW],
             committed |-> polys[1]])

inner_prove_evaluation(inner_n_vars, ch, committed, polys, query) ==
    IF Len(polys) # 1 THEN Err(InnerError("NumPolys"))
    ELSE IF polys[1].mu # inner_n_vars \/ polys[1] # committed
         THEN Err(InnerError("NumVars"))
    ELSE IF Len(query) # inner_n_vars THEN Err(InnerError("QuerySize"))
    ELSE Ok([point |-> query, transcript |-> ch.state])

inner_verify_evaluation(inner_n_vars, ch, commitment, query, proof, values) ==
    IF Len(values) # 1 THEN Err(InnerError("NumValues"))
    ELSE IF Len(query) # inner_n_vars THEN Err(InnerError("QuerySize"))
    ELSE IF proof.point # query \/ proof.transcript # ch.state
         THEN Err(InnerError("Verification"))
    ELSE LET opened == evaluate(MLE(commitment.mu, commitment.evals),
                                Pow2(commitment.logW), query)
         IN  IF IsOk(opened) /\ opened.val = values[1] THEN Ok("unit")
             ELSE Err(InnerError("Verification"))

(***************************************************************************)
(* BatchPCS.  self = [inner_n_vars, n_vars, log_num_polys]; logW is the    *)
(* LOG_WIDTH of its packed field P.  Every operation returns its result    *)
(* together with the calls it made to the inner PCS and, where it takes    *)
(* one, the challenger as it leaves it.                                    *)
(***************************************************************************)
BatchPCS_new(inner_n_vars, n, m) ==
    IF inner_n_vars # n + m THEN Err(NumVarsInnerOuter(inner_n_vars, n, m))
    ELSE Ok([inner_n_vars |-> inner_n_vars, n_vars |-> n, log_num_polys |-> m])

\* a call of the inner PCS: the function, the polynomials (their count and numbers
\* of variables), the query, the claimed values and the challenger handed over
InnerCall(fn, polys, query, vals, ch) ==
    [fn |-> fn, n_polys |-> Len(polys),
     mus |-> [k \in 1..Len(polys) |-> polys[k].mu],
     query |-> query, values |-> vals, ch |-> ch]

\* commit's checks of the batch: the error they raise, or NoError
NoError == [kind |-> "NoError"]

CommitCountOnly(self, polys) ==
    IF Len(polys) # Pow2(self.log_num_polys) THEN NumPolys ELSE NoError

CommitShapeError(self, polys) ==
    IF Len(polys) # Pow2(self.log_num_polys) THEN NumPolys
    ELSE IF \E u \in 1..Len(polys) : polys[u].mu # self.n_vars THEN NumVars
    ELSE NoError

\* new_query := query || challenges, in prove_evaluation
ProverNewQuery(query, challenges) == query \o challenges

ChallengesFirst(query, mixing_challenges) == mixing_challenges \o query

\* new_query := query || mixing_challenges, in verify_evaluation
VerifierNewQuery(query, mixing_challenges) == query \o mixing_challenges

\* let challenges = challenger.sample_vec(self.log_num_polys), in prove_evaluation
ProverChallenges(self, ch) == sample_vec(ch, self.log_num_polys)

VerifierSamplesNVars(self, ch) == sample_vec(ch, self.n_vars)

\* let mixing_challenges = challenger.sample_vec(self.log_num_polys), in verify_evaluation
VerifierChallenges(self, ch) == sample_vec(ch, self.log_num_polys)

FirstValueUnmixed(interpolated, mixing_challenges) ==
    IF interpolated.mu # Len(mixing_challenges)
    THEN Err(IncorrectQuerySize(interpolated.mu))
    ELSE Ok(interpolated.evals[1][1])

\* interpolate_from_evaluations.evaluate(&MultilinearQuery::with_full_query(&mixing_challenges)?)
MixedEvaluation(interpolated, mixing_challenges) ==
    evaluate(interpolated, 1, mixing_challenges)

\* MultilinearQuery::with_full_query(&mixing_challenges, backend): the pre-expanded
\* tensor of the challenges is computed when the query is built
QueryWork(mixing_challenges) == <<"with_full_query">>

commit(self, logW, polys) ==
    IF CommitShapeError(self, polys) # NoError
    THEN [res |-> Err(CommitShapeError(self, polys)), calls |-> <<>>, work |-> <<>>]
    ELSE LET merged_poly == merge_polynomials(polys, logW)
         IN  IF IsErr(merged_poly)
             THEN [res |-> merged_poly, calls |-> <<>>, work |-> MergeWork(polys)]
             ELSE LET inner == inner_commit(self.inner_n_vars, logW, <<merged_poly.val>>)
                  IN  [res |-> IF IsErr(inner) THEN Err(InnerPCS(inner.err)) ELSE inner,
                       calls |-> <<InnerCall("commit", <<merged_poly.val>>, <<>>, <<>>,
                                             NewChallenger(0))>>,
                       work |-> MergeWork(polys)]

prove_evaluation(self, logW, ch, committed, polys, query) ==
    IF Len(query) # self.n_vars
    THEN [res |-> Err(Polynomial(IncorrectQuerySize(self.n_vars))),
          ch |-> ch, calls |-> <<>>, work |-> <<>>]
    ELSE LET sampled == ProverChallenges(self, ch)
             challenges == sampled.out
             new_query == ProverNewQuery(query, challenges)
             merged_poly == merge_polynomials(polys, logW)
         IN  IF IsErr(merged_poly)
             THEN [res |-> merged_poly, ch |-> sampled.ch, calls |-> <<>>,
                   work |-> MergeWork(polys)]
             ELSE LET inner == inner_prove_evaluation(self.inner_n_vars, sampled.ch,
                                   committed, <<merged_poly.val>>, new_query)
                  IN  [res |-> IF IsErr(inner) THEN Err(InnerPCS(inner.err)) ELSE inner,
                       ch |-> sampled.ch,
                       calls |-> <<InnerCall("prove_evaluation", <<merged_poly.val>>,
                                             new_query, <<>>, sampled.ch)>>,
                       work |-> MergeWork(polys)]

\* values: &[FE] is a slice of the packed field FE of width 1
FECells(values) == [k \in 1..Len(values) |-> <<values[k]>>]

\* the argument of evaluate, the expanded query, is built before evaluate is entered
verify_evaluation(self, ch, commitment, query, proof, values) ==
    LET sampled == VerifierChallenges(self, ch)
        mixing_challenges == sampled.out
        interpolate_from_evaluations == from_values_slice(FECells(values), 1)
    IN  IF IsErr(interpolate_from_evaluations)
        THEN [res |-> Err(Polynomial(interpolate_from_evaluations.err)),
              ch |-> sampled.ch, calls |-> <<>>, work |-> <<>>]
        ELSE LET mixed_evaluation ==
                     MixedEvaluation(interpolate_from_evaluations.val, mixing_challenges)
             IN  IF IsErr(mixed_evaluation)
                 THEN [res |-> Err(Polynomial(mixed_evaluation.err)),
                       ch |-> sampled.ch, calls |-> <<>>,
                       work |-> QueryWork(mixing_challenges)]
                 ELSE LET mixed_value == <<mixed_evaluation.val>>
                          new_query == VerifierNewQuery(query, mixing_challenges)
                          inner == inner_verify_evaluation(self.inner_n_vars, sampled.ch,
                                       commitment, new_query, proof, mixed_value)
                      IN  [res |-> IF IsErr(inner) THEN Err(InnerPCS(inner.err)) ELSE inner,
                           ch |-> sampled.ch,
                           calls |-> <<InnerCall("verify_evaluation", <<>>, new_query,
                                                 mixed_value, sampled.ch)>>,
                           work |-> QueryWork(mixing_challenges)]

(***************************************************************************)
(* State.                                                                  *)
(***************************************************************************)
VARIABLES
    pc,                  \* where the run is
    self,                \* BatchPCS { inner_n_vars, n_vars, log_num_polys }
    logW,                \* LOG_WIDTH of the packed field P
    polys,               \* the batch handed to commit and to prove_evaluation
    commitment,          \* Inner::Commitment
    committed,           \* Inner::Committed
    challenger,          \* the caller's challenger
    prover_challenger,   \* its clone handed to prove_evaluation
    verifier_challenger, \* its clone handed to verify_evaluation
    proveQuery,          \* query of prove_evaluation
    proof,               \* Proof(inner proof)
    verifyQuery,         \* query of verify_evaluation
    values,              \* values of verify_evaluation
    ret,                 \* what the last call returned
    innerCalls,          \* the calls made to the inner PCS, in order
    work,                \* the buffers and expansions the last call computed, in order
    provePolys,          \* the polys handed to prove_evaluation
    mpc,                 \* where the run of SpecMLE is
    q,                   \* the query
    mleVals,             \* the packed values a polynomial is built from
    mlePoly,             \* the polynomial built from mleVals
    result1,             \* expand_query(q), then poly.evaluate(q)
    result2,             \* expand_query_naive(q), then what evaluate_split returns
    partial_result,      \* evaluate_split's partial_result
    index,               \* evaluate_split's index
    splits,              \* the splits evaluate_split has taken, in order
    mleBatch,            \* the polynomials handed to batch_evaluate
    basis_eval,          \* batch_evaluate's shared expansion of q
    yielded,             \* the items the iterator has yielded
    logWE,               \* LOG_WIDTH of the packed extension field PE
    argVars,             \* the n_vars / vars argument of the last call
    dst,                 \* subcube_evals' dst, a slice of PE
    expanded_query       \* inner_prod_subcube's expanded_query, a slice of PE

pcsVars == <<pc, self, logW, polys, commitment, committed, challenger, prover_challenger,
             verifier_challenger, proveQuery, proof, verifyQuery, values, ret, innerCalls,
             work, provePolys>>

mleVars == <<mpc, q, mleVals, mlePoly, result1, result2, partial_result, index, splits,
             mleBatch, basis_eval, yielded>>

peVars == <<logWE, argVars, dst, expanded_query>>

vars == <<pcsVars, mleVars, peVars>>

(***************************************************************************)
(* Inputs.                                                                 *)
(***************************************************************************)
Min(a, b) == IF a < b THEN a ELSE b

\* all sequences of length len over S
SeqsOf(S, len) == [1..len -> S]

DropLast(s) == SubSeq(s, 1, Len(s) - 1)

\* the 2^m polynomials of n variables whose scalars, in order, are `scalars`
BatchOf(scalars, n, m, lw) ==
    [u \in 1..Pow2(m) |->
        MLE(n, PackScalars(SubSeq(scalars, (u - 1) * Pow2(n) + 1, u * Pow2(n)), Pow2(lw)))]

\* the tables of evaluations the inputs are drawn from: all zero, all one, the ramp
\* values[i] = i of test_evaluate_on_hypercube, and a single entry 1 or x
Tables(len) ==
    {[i \in 1..len |-> ZERO], [i \in 1..len |-> ONE], [i \in 1..len |-> (i - 1) % 4]}
    \cup {[i \in 1..len |-> IF i = j THEN c ELSE ZERO] : j \in 1..len, c \in {1, 2}}

LegalBatches(n, m, lw) ==
    {BatchOf(scalars, n, m, lw) : scalars \in Tables(Pow2(n + m))}

\* the polynomial of one more variable whose evaluations are those of poly, twice
Widen(poly) == MLE(poly.mu + 1, poly.evals \o poly.evals)

\* batches of the wrong shape: one polynomial short, twice as many, the last or
\* every polynomial with one variable more
IllShapedBatches(n, m, lw) ==
    UNION {{DropLast(b), b \o b,
            [b EXCEPT ![Len(b)] = Widen(@)],
            [u \in 1..Len(b) |-> Widen(b[u])]} : b \in LegalBatches(n, m, lw)}

CommitBatches(n, m, lw) == LegalBatches(n, m, lw) \cup IllShapedBatches(n, m, lw)

\* the polys prove_evaluation may be handed: the committed batch, or the batch
\* with one polynomial short, twice over, or with every polynomial one variable wider
ProveBatches(b) ==
    {b, DropLast(b), b \o b, [u \in 1..Len(b) |-> Widen(b[u])]}

\* a query with coordinates both inside and outside {0, 1}
MixedQuery(k) == [j \in 1..k |-> (j + 1) % 4]

\* the queries of k entries: the boolean points, the points with every coordinate
\* outside {0, 1}, and one point mixing the two
Queries(k) == SeqsOf({ZERO, ONE}, k) \cup SeqsOf({2, 3}, k) \cup {MixedQuery(k)}

\* queries of the wrong length: all ONE, every length up to n + 1 but n
WrongQueries(n) == {[k \in 1..len |-> ONE] : len \in (0..(n + 1)) \ {n}}

ProveQueries(n) == Queries(n) \cup WrongQueries(n)

\* values[u] = polys[u].evaluate(query)
HonestValues(batch, lw, query) ==
    [u \in 1..Len(batch) |-> evaluate(batch[u], Pow2(lw), query).val]

\* one claimed value replaced by a different field element
TamperedValues(honest) ==
    {[honest EXCEPT ![u] = FAdd(@, d)] : u \in 1..Len(honest), d \in FieldFE \ {ZERO}}

\* what verify_evaluation may be handed: the honest query with honest values, with
\* one value tampered, with values of the wrong length; or a query of the wrong
\* length with honest values
VerifyInputs(honest, query) ==
    {<<query, v>> : v \in {honest} \cup TamperedValues(honest)
                              \cup {honest \o honest, DropLast(honest)}}
    \cup {<<query \o <<ONE>>, honest>>}
    \cup (IF Len(query) > 0 THEN {<<DropLast(query), honest>>} ELSE {})

(***************************************************************************)
(* Spec: BatchPCS::new, then commit, the caller's observe of the           *)
(* commitment and clone of the challenger, prove_evaluation and            *)
(* verify_evaluation, as in test_commit_prove_verify_success_*.            *)
(***************************************************************************)
NoCommitment == [mu |-> 0, evals |-> <<>>, logW |-> 0]
NoProof == [point |-> <<>>, transcript |-> 0]
NoRet == [tag |-> "None"]

\* the variables of SpecMLE, unused by Spec
MLEIdle ==
    /\ mpc = "idle"
    /\ q = <<>>
    /\ mleVals = <<>>
    /\ mlePoly = MLE(0, <<>>)
    /\ result1 = NoRet
    /\ result2 = NoRet
    /\ partial_result = MLE(0, <<>>)
    /\ index = 0
    /\ splits = <<>>
    /\ mleBatch = <<>>
    /\ basis_eval = NoRet
    /\ yielded = <<>>

\* the variables of SpecPE, unused by Spec and SpecMLE
PEIdle ==
    /\ logWE = 0
    /\ argVars = 0
    /\ dst = <<>>
    /\ expanded_query = <<>>

Init ==
    /\ MLEIdle
    /\ PEIdle
    /\ pc = "start"
    /\ \E n \in 0..MaxTotalVars, m \in 0..MaxTotalVars, i \in 0..(MaxTotalVars + 1) :
          /\ n + m <= MaxTotalVars
          /\ self = [inner_n_vars |-> i, n_vars |-> n, log_num_polys |-> m]
          /\ logW \in 0..Min(n, MaxLogWidth)
          /\ \E s \in 0..(4 ^ m - 1) : challenger = NewChallenger(s)
    /\ polys = <<>>
    /\ commitment = NoCommitment
    /\ committed = MLE(0, <<>>)
    /\ prover_challenger = NewChallenger(0)
    /\ verifier_challenger = NewChallenger(0)
    /\ proveQuery = <<>>
    /\ proof = NoProof
    /\ verifyQuery = <<>>
    /\ values = <<>>
    /\ ret = NoRet
    /\ innerCalls = <<>>
    /\ work = <<>>
    /\ provePolys = <<>>

New ==
    /\ pc = "start"
    /\ ret' = BatchPCS_new(self.inner_n_vars, self.n_vars, self.log_num_polys)
    /\ pc' = IF IsOk(ret') THEN "constructed" ELSE "rejected"
    /\ UNCHANGED <<self, logW, polys, commitment, committed, challenger, prover_challenger,
                   verifier_challenger, proveQuery, proof, verifyQuery, values, innerCalls,
                   work, provePolys>>
    /\ UNCHANGED <<mleVars, peVars>>

Commit ==
    /\ pc = "constructed"
    /\ \E batch \in CommitBatches(self.n_vars, self.log_num_polys, logW) :
          \E out \in {commit(self, logW, batch)} :
              /\ polys' = batch
              /\ ret' = out.res
              /\ innerCalls' = innerCalls \o out.calls
              /\ work' = out.work
              /\ IF IsOk(out.res)
                 THEN /\ commitment' = out.res.val.commitment
                      /\ committed' = out.res.val.committed
                      /\ pc' = "committed"
                 ELSE /\ UNCHANGED <<commitment, committed>>
                      /\ pc' = "commit_failed"
    /\ UNCHANGED <<self, logW, challenger, prover_challenger, verifier_challenger,
                   proveQuery, proof, verifyQuery, values, provePolys>>
    /\ UNCHANGED <<mleVars, peVars>>

\* challenger.observe(commitment.clone()); the prover and the verifier clone it
Observe ==
    /\ pc = "committed"
    /\ challenger' = observe(challenger, commitment)
    /\ prover_challenger' = challenger'
    /\ verifier_challenger' = challenger'
    /\ pc' = "observed"
    /\ UNCHANGED <<self, logW, polys, commitment, committed, proveQuery, proof,
                   verifyQuery, values, ret, innerCalls, work, provePolys>>
    /\ UNCHANGED <<mleVars, peVars>>

Prove ==
    /\ pc = "observed"
    /\ \E query \in ProveQueries(self.n_vars), batch \in ProveBatches(polys) :
          \E out \in {prove_evaluation(self, logW, prover_challenger, committed, batch,
                                      query)} :
              /\ proveQuery' = query
              /\ provePolys' = batch
              /\ ret' = out.res
              /\ prover_challenger' = out.ch
              /\ innerCalls' = innerCalls \o out.calls
              /\ work' = out.work
              /\ IF IsOk(out.res)
                 THEN proof' = out.res.val /\ pc' = "proved"
                 ELSE proof' = proof /\ pc' = "prove_failed"
    /\ UNCHANGED <<self, logW, polys, commitment, committed, challenger,
                   verifier_challenger, verifyQuery, values>>
    /\ UNCHANGED <<mleVars, peVars>>

Verify ==
    /\ pc = "proved"
    /\ \E input \in VerifyInputs(HonestValues(polys, logW, proveQuery), proveQuery) :
          \E out \in {verify_evaluation(self, verifier_challenger, commitment,
                                       input[1], proof, input[2])} :
              /\ verifyQuery' = input[1]
              /\ values' = input[2]
              /\ ret' = out.res
              /\ verifier_challenger' = out.ch
              /\ innerCalls' = innerCalls \o out.calls
              /\ work' = out.work
    /\ pc' = "verified"
    /\ UNCHANGED <<self, logW, polys, commitment, committed, challenger,
                   prover_challenger, proveQuery, proof, provePolys>>
    /\ UNCHANGED <<mleVars, peVars>>

Next == New \/ Commit \/ Observe \/ Prove \/ Verify

Spec == Init /\ [][Next]_vars

(***************************************************************************)
(* Properties of Spec.                                                     *)
(***************************************************************************)
IsIncorrectQuerySize(r) ==
    IsErr(r) /\ r.err.kind = "Polynomial" /\ r.err.source.kind = "IncorrectQuerySize"

IsShapeError(r, e) == IsErr(r) /\ r.err = e

\* the last k entries of a query
Suffix(query, k) == SubSeq(query, Len(query) - k + 1, Len(query))

\* the mixing challenges both sides draw from the challenger as cloned
MixingChallenges == SampleFrom(challenger.state, self.log_num_polys)

\* verify_evaluation was handed the prover's query and values of the right length
SameQueryRun ==
    /\ pc = "verified"
    /\ verifyQuery = proveQuery
    /\ Len(values) = Len(polys)

\* ... and values[u] = polys[u].evaluate(r) for every u
HonestRun == SameQueryRun /\ values = HonestValues(polys, logW, proveQuery)

\* values differs from honest at u and nowhere else
TamperedFrom(honest, u) ==
    /\ values[u] # honest[u]
    /\ values = [honest EXCEPT ![u] = values[u]]

\* ... and instead values[u] alone differs from polys[u].evaluate(r)
TamperedAt(u) == SameQueryRun /\ TamperedFrom(HonestValues(polys, logW, proveQuery), u)

\* C1: after commit, observe, prove_evaluation and verify_evaluation with the
\* prover's query and values[u] = polys[u].evaluate(r) for every u, from challengers
\* cloned after the commitment was observed, verify_evaluation has returned Ok.
C1_RoundTrip == HonestRun => ret = Ok("unit")

C1_Witness ==
    /\ HonestRun
    /\ ret = Ok("unit")
    /\ self.n_vars = 1 /\ self.log_num_polys = 1 /\ logW = 1
    /\ values[1] # values[2]
    /\ MixingChallenges = <<2>>

\* C2: every call of the inner PCS by prove_evaluation or verify_evaluation is
\* handed a challenger on which the adapter has performed, since the clone, exactly
\* one sample_vec(m) and no observe; the augmented query ends in the m challenges
\* drawn from the cloned state; and prover and verifier hand over challengers in
\* equal states and, given the same query r, the same augmented query of length n + m.
C2_TranscriptOrdering ==
    LET m == self.log_num_polys
        opening(k) == innerCalls[k].fn \in {"prove_evaluation", "verify_evaluation"}
    IN  /\ \A k \in 1..Len(innerCalls) :
              opening(k) =>
                  /\ innerCalls[k].ch.log =
                         Append(challenger.log, [op |-> "sample_vec", n |-> m])
                  /\ Len(innerCalls[k].query) >= m
                  /\ Suffix(innerCalls[k].query, m) = MixingChallenges
        /\ \A j, k \in 1..Len(innerCalls) :
              (innerCalls[j].fn = "prove_evaluation"
                  /\ innerCalls[k].fn = "verify_evaluation") =>
                  /\ innerCalls[j].ch = innerCalls[k].ch
                  /\ verifyQuery = proveQuery =>
                        /\ innerCalls[j].query = innerCalls[k].query
                        /\ Len(innerCalls[k].query) = self.n_vars + m

C2_Witness ==
    /\ pc = "verified"
    /\ self.n_vars = 1 /\ self.log_num_polys = 1
    /\ Len(innerCalls) = 3
    /\ innerCalls[2].fn = "prove_evaluation"
    /\ innerCalls[3].fn = "verify_evaluation"
    /\ innerCalls[3].query = proveQuery \o MixingChallenges

\* C3 as stated: replacing the single claimed value values[u] by a different field
\* element makes verify_evaluation return an error, whatever u and whatever the
\* mixing challenges r'.
C3_RejectsEveryTamper ==
    SameQueryRun =>
        \A honest \in {HonestValues(polys, logW, proveQuery)} :
            \A u \in 1..Len(values) : TamperedFrom(honest, u) => IsErr(ret)

\* C3 as amended: replacing the single claimed value values[u] by a different field
\* element makes verify_evaluation return an error exactly when eq(r', u), the
\* coefficient of values[u] in the mixed value, is not zero.
C3_RejectsTamperIffWeighted ==
    SameQueryRun =>
        \A honest \in {HonestValues(polys, logW, proveQuery)} :
            \A u \in 1..Len(values) :
                TamperedFrom(honest, u) =>
                    (IsErr(ret) <=> eval_basis(MixingChallenges, u - 1) # ZERO)

C3_Witness ==
    /\ self.log_num_polys = 2
    /\ TamperedAt(4)
    /\ eval_basis(MixingChallenges, 3) # ZERO
    /\ ret = Err(InnerPCS(InnerError("Verification")))

\* the sum over u of eq(r', u) * vals[u]
RECURSIVE MixFrom(_, _, _)
MixFrom(challenges, vals, u) ==
    IF u >= Len(vals) THEN ZERO
    ELSE FAdd(FMul(eval_basis(challenges, u), At(vals, u)), MixFrom(challenges, vals, u + 1))

\* C4: the polynomial T that commit merged from 2^m polynomials of n variables has
\* n + m variables, its scalar at hypercube index u * 2^n + v is the scalar of
\* polys[u] at v, and for every r of length n and r' of length m, T.evaluate(r || r')
\* is the sum over u of eq(r', u) * polys[u].evaluate(r), which is the evaluation at
\* r' of the MLE of the values polys[u].evaluate(r).
C4_MergeIdentity ==
    pc = "committed" =>
        LET n == self.n_vars
            m == self.log_num_polys
            W == Pow2(logW)
            T == committed
        IN  /\ T.mu = n + m
            /\ Len(T.evals) * W = Pow2(n + m)
            /\ \A u \in 0..(Pow2(m) - 1), v \in 0..(Pow2(n) - 1) :
                  get_packed_slice(T.evals, W, u * Pow2(n) + v)
                      = get_packed_slice(At(polys, u).evals, W, v)
            /\ \A r \in SeqsOf(FieldFE, n) :
                  \A vals \in {HonestValues(polys, logW, r)} :
                      \A rr \in SeqsOf(FieldFE, m) :
                          \A direct \in {evaluate(T, W, r \o rr)} :
                              /\ IsOk(direct)
                              /\ direct.val = MixFrom(rr, vals, 0)
                              /\ direct = MixedEvaluation(
                                              from_values_slice(FECells(vals), 1).val, rr)

C4_Witness ==
    /\ pc = "committed"
    /\ self.n_vars = 1 /\ self.log_num_polys = 1 /\ logW = 1
    /\ iter_packed_slice(committed.evals, 2) = <<0, 1, 2, 3>>
    /\ polys[2].evals = <<<<2, 3>>>>

\* C5 as stated: prove_evaluation and verify_evaluation return IncorrectQuerySize
\* if and only if the length of the query differs from n.
C5_QuerySizeIff ==
    /\ pc \in {"proved", "prove_failed"} =>
          (IsIncorrectQuerySize(ret) <=> Len(proveQuery) # self.n_vars)
    /\ pc = "verified" =>
          (IsIncorrectQuerySize(ret) <=> Len(verifyQuery) # self.n_vars)

\* C6: commit returns NumPolys iff the number of polynomials is not 2^m; with 2^m
\* polynomials it returns NumVars iff some polynomial has not n variables; with
\* either error the inner PCS was not called, and otherwise it was called exactly
\* once, with one polynomial of n + m variables.
C6_CommitShape ==
    pc \in {"committed", "commit_failed"} =>
        LET count_ok == Len(polys) = Pow2(self.log_num_polys)
            vars_ok == \A u \in 1..Len(polys) : polys[u].mu = self.n_vars
        IN  /\ IsShapeError(ret, NumPolys) <=> ~count_ok
            /\ count_ok => (IsShapeError(ret, NumVars) <=> ~vars_ok)
            /\ (IsShapeError(ret, NumPolys) \/ IsShapeError(ret, NumVars))
                  => innerCalls = <<>>
            /\ (count_ok /\ vars_ok) =>
                  /\ Len(innerCalls) = 1
                  /\ innerCalls[1].fn = "commit"
                  /\ innerCalls[1].n_polys = 1
                  /\ innerCalls[1].mus = <<self.n_vars + self.log_num_polys>>

C6_Witness ==
    /\ pc = "commit_failed"
    /\ ret = Err(NumVars)
    /\ Len(polys) = 2 /\ self.log_num_polys = 1
    /\ \A u \in 1..2 : polys[u].mu = self.n_vars + 1


\* the shape and range errors of the adapter
IsShapeOrRangeError(r) ==
    /\ IsErr(r)
    /\ \/ r.err \in {NumPolys, NumVars, Polynomial(PowerOfTwoLengthRequired)}
       \/ IsIncorrectQuerySize(r)

\* C17: whenever commit, prove_evaluation or verify_evaluation has returned NumPolys,
\* NumVars, PowerOfTwoLengthRequired or IncorrectQuerySize, the call has allocated
\* and filled no merge buffer and has computed no tensor expansion of the mixing
\* challenges.
C17_ValidationBeforeWork ==
    (pc \in {"commit_failed", "prove_failed", "verified"} /\ IsShapeOrRangeError(ret))
        => work = <<>>

\* the same, of commit and prove_evaluation only
C17_ValidationBeforeMerge ==
    pc \in {"commit_failed", "prove_failed"} => C17_ValidationBeforeWork


\* the polys handed to prove_evaluation are 2^m polynomials of n variables each
ProvePolysWellShaped ==
    /\ Len(provePolys) = Pow2(self.log_num_polys)
    /\ \A u \in 1..Len(provePolys) : provePolys[u].mu = self.n_vars

\* the call handed the inner PCS one polynomial of n + m variables, as many as the
\* augmented query has entries and as inner.n_vars()
DelegatesOneMerged(call) ==
    /\ call.n_polys = 1
    /\ call.mus = <<self.n_vars + self.log_num_polys>>
    /\ Len(call.query) = self.n_vars + self.log_num_polys
    /\ self.inner_n_vars = self.n_vars + self.log_num_polys

\* C18: every call of the inner PCS's prove_evaluation made by prove_evaluation, for
\* any polys argument, passes exactly one merged polynomial of n + m variables, the
\* length of r || r' and inner.n_vars(); polys that are not 2^m polynomials of n
\* variables each never reach the inner PCS.
C18_DelegationShape ==
    \A k \in 1..Len(innerCalls) :
        innerCalls[k].fn = "prove_evaluation" =>
            DelegatesOneMerged(innerCalls[k]) /\ ProvePolysWellShaped

\* the same, of the calls prove_evaluation makes when handed 2^m polynomials of n
\* variables each
C18_DelegationShapeWellShaped ==
    ProvePolysWellShaped => C18_DelegationShape


(***************************************************************************)
(* SpecMLE: the operations of MultilinearExtension, run as the unit tests  *)
(* of multilinear_extension.rs run them.  logW is P::LOG_WIDTH.            *)
(***************************************************************************)

\* a query too long for expand_query: 2^USIZE_BITS overflows usize
LongQuery == [j \in 1..USIZE_BITS |-> ONE]

MLEQueries == UNION {Queries(k) : k \in 0..MaxVars} \cup {LongQuery}

Ramp(len) == [i \in 1..len |-> (i - 1) % 4]

\* packed values for a polynomial: every table of as many variables as the query
\* has, one table for every other number of variables, and two sequences whose
\* length is not a power of two
ValueInputs(query, lw) ==
    LET W == Pow2(lw)
    IN  {PackScalars(t, W) :
            t \in IF Len(query) \in lw..MaxVars THEN Tables(Pow2(Len(query))) ELSE {}}
        \cup {PackScalars(Ramp(Pow2(mu)), W) : mu \in lw..MaxVars}
        \cup {<<>>, PackScalars(Ramp(3 * W), W)}

\* a polynomial of another number of variables: the low half of p when that fills
\* at least one packed cell, else p twice
OtherSize(p) ==
    IF p.mu >= 1 /\ Len(p.evals) >= 2
    THEN MLE(p.mu - 1, SubSeq(p.evals, 1, Len(p.evals) \div 2))
    ELSE Widen(p)

\* the batches handed to batch_evaluate: the polynomial and one of another size
Batches(p) == UNION {SeqsOf({p, OtherSize(p)}, len) : len \in 0..MaxBatch}

InitMLE ==
    /\ PEIdle
    /\ pc = "idle"
    /\ self = [n_vars |-> 0, log_num_polys |-> 0, inner_n_vars |-> 0]
    /\ logW \in 0..MaxLogWidth
    /\ polys = <<>>
    /\ commitment = NoCommitment
    /\ committed = NoCommitment
    /\ challenger = NewChallenger(0)
    /\ prover_challenger = NewChallenger(0)
    /\ verifier_challenger = NewChallenger(0)
    /\ proveQuery = <<>>
    /\ proof = NoProof
    /\ verifyQuery = <<>>
    /\ values = <<>>
    /\ ret = NoRet
    /\ innerCalls = <<>>
    /\ work = <<>>
    /\ provePolys = <<>>
    /\ mpc = "start"
    /\ q \in MLEQueries
    /\ mleVals = <<>>
    /\ mlePoly = MLE(0, <<>>)
    /\ result1 = NoRet
    /\ result2 = NoRet
    /\ partial_result = MLE(0, <<>>)
    /\ index = 0
    /\ splits = <<>>
    /\ mleBatch = <<>>
    /\ basis_eval = NoRet
    /\ yielded = <<>>

\* let result1 = expand_query(&q)
ExpandQuery ==
    /\ mpc = "start"
    /\ result1' = expand_query(q)
    /\ mpc' = "expanded"
    /\ UNCHANGED <<pcsVars, peVars, q, mleVals, mlePoly, result2, partial_result, index, splits,
                   mleBatch, basis_eval, yielded>>

\* let result2 = expand_query_naive(&q)
ExpandQueryNaive ==
    /\ mpc = "expanded"
    /\ result2' = expand_query_naive(q)
    /\ mpc' = "expanded_both"
    /\ UNCHANGED <<pcsVars, peVars, q, mleVals, mlePoly, result1, partial_result, index, splits,
                   mleBatch, basis_eval, yielded>>

\* MultilinearExtension::from_values(v)
FromValues ==
    /\ mpc = "start"
    /\ \E v \in ValueInputs(q, logW) :
        LET built == from_values(v, Pow2(logW))
        IN  /\ mleVals' = v
            /\ mlePoly' = IF IsOk(built) THEN built.val ELSE mlePoly
            /\ result1' = IF IsOk(built) THEN NoRet ELSE built
            /\ mpc' = IF IsOk(built) THEN "built" ELSE "build_failed"
    /\ UNCHANGED <<pcsVars, peVars, q, result2, partial_result, index, splits, mleBatch,
                   basis_eval, yielded>>

\* MultilinearExtension::from_values_slice(&v)
FromValuesSlice ==
    /\ mpc = "start"
    /\ \E v \in ValueInputs(q, logW) :
        LET built == from_values_slice(v, Pow2(logW))
        IN  /\ mleVals' = v
            /\ mlePoly' = IF IsOk(built) THEN built.val ELSE mlePoly
            /\ result1' = IF IsOk(built) THEN NoRet ELSE built
            /\ mpc' = IF IsOk(built) THEN "built_slice" ELSE "build_failed"
    /\ UNCHANGED <<pcsVars, peVars, q, result2, partial_result, index, splits, mleBatch,
                   basis_eval, yielded>>

\* let result1 = poly.evaluate(&q); evaluate_split then starts from
\* partial_result = poly.borrow_copy() and index = q.len()
Evaluate ==
    /\ mpc \in {"built", "built_slice"}
    /\ result1' = evaluate(mlePoly, Pow2(logW), q)
    /\ partial_result' = mlePoly
    /\ index' = Len(q)
    /\ mpc' = "evaluated"
    /\ UNCHANGED <<pcsVars, peVars, q, mleVals, mlePoly, result2, splits, mleBatch, basis_eval,
                   yielded>>

\* one pass of evaluate_split's loop: evaluate_partial_high on the top split_vars
\* entries of q[..index], unwrapped
SplitStep ==
    /\ mpc \in {"evaluated", "splitting"}
    /\ IsOk(result1)
    /\ \E split_vars \in 1..(index - 1) :
        LET partial == evaluate_partial_high(partial_result, Pow2(logW), Pow2(logW),
                                             SubSeq(q, index - split_vars + 1, index))
        IN  /\ splits' = Append(splits, split_vars)
            /\ IF IsOk(partial)
               THEN /\ partial_result' = partial.val
                    /\ index' = index - split_vars
                    /\ mpc' = "splitting"
                    /\ UNCHANGED result2
               ELSE /\ result2' = partial
                    /\ mpc' = "split_failed"
                    /\ UNCHANGED <<partial_result, index>>
    /\ UNCHANGED <<pcsVars, peVars, q, mleVals, mlePoly, result1, mleBatch, basis_eval, yielded>>

\* evaluate_split's last line: partial_result.evaluate(&q[..index])
SplitFinish ==
    /\ mpc = "splitting"
    /\ result2' = evaluate(partial_result, Pow2(logW), SubSeq(q, 1, index))
    /\ mpc' = "split_done"
    /\ UNCHANGED <<pcsVars, peVars, q, mleVals, mlePoly, result1, partial_result, index, splits,
                   mleBatch, basis_eval, yielded>>

\* MultilinearExtension::batch_evaluate(polys, &q): expands q, returns the iterator
BatchEvaluate ==
    /\ mpc = "evaluated"
    /\ \E b \in Batches(mlePoly) : mleBatch' = b
    /\ basis_eval' = expand_query(q)
    /\ yielded' = <<>>
    /\ mpc' = "iterating"
    /\ UNCHANGED <<pcsVars, peVars, q, mleVals, mlePoly, result1, result2, partial_result, index,
                   splits>>

\* eval_iter.next(): the next polynomial's item, or None after the last
BatchNext ==
    /\ mpc = "iterating"
    /\ IF Len(yielded) < Len(mleBatch)
       THEN /\ yielded' = Append(yielded, BatchItem(basis_eval, Len(q),
                                                    mleBatch[Len(yielded) + 1], Pow2(logW)))
            /\ mpc' = "iterating"
       ELSE /\ yielded' = yielded
            /\ mpc' = "iterator_ended"
    /\ UNCHANGED <<pcsVars, peVars, q, mleVals, mlePoly, result1, result2, partial_result, index,
                   splits, mleBatch, basis_eval>>

NextMLE ==
    \/ ExpandQuery
    \/ ExpandQueryNaive
    \/ FromValues
    \/ FromValuesSlice
    \/ Evaluate
    \/ SplitStep
    \/ SplitFinish
    \/ BatchEvaluate
    \/ BatchNext

SpecMLE == InitMLE /\ [][NextMLE]_vars

\* binary(i): bit j of i, least significant first, as a field element
binary(i, mu) == [j \in 1..mu |-> Bit(i, j - 1)]

C8_HypercubeAgreement ==
    mpc = "evaluated" =>
        LET W == Pow2(logW)
            scalars == Len(mleVals) * W
        IN  \A i \in 0..(scalars - 1) :
                (Len(q) = log2(scalars) /\ q = binary(i, Len(q))) =>
                    result1 = Ok(mleVals[(i \div W) + 1][(i % W) + 1])

C8_Witness ==
    /\ mpc = "evaluated"
    /\ logW = MaxLogWidth
    /\ mlePoly.mu = MaxVars
    /\ q = binary(5, MaxVars)
    /\ result1 = Ok(2)
    /\ mleVals[(5 \div Pow2(logW)) + 1][(5 % Pow2(logW)) + 1] = 2

\* C9 as stated: for every partition of the variables, the chain of
\* evaluate_partial_high calls on the top parts followed by evaluate on the low
\* part returns what evaluate(q) returns.
C9_SplitEvaluation ==
    /\ mpc # "split_failed"
    /\ mpc = "split_done" => IsOk(result2) /\ result2 = result1

\* C9, narrowed: the chain returns what evaluate(q) returns whenever every
\* evaluate_partial_high call leaves at least W scalars, that is whenever
\* 2^(k_1) >= W for the low part k_1; the call that would leave fewer returns
\* IncorrectQuerySize instead.
C9_SplitEvaluationWideEnough ==
    /\ mpc = "split_done" => IsOk(result2) /\ result2 = result1
    /\ mpc = "splitting" => Pow2(index) >= Pow2(logW)
    /\ mpc = "split_failed" =>
        /\ Pow2(index - splits[Len(splits)]) < Pow2(logW)
        /\ result2 = Err(IncorrectQuerySize(partial_result.mu))

C9_Witness ==
    /\ mpc = "split_done"
    /\ splits = <<1, 1>>
    /\ index = 1
    /\ logW = 1
    /\ q = MixedQuery(3)
    /\ IsOk(result2)
    /\ result2 = result1
    /\ result2.val # ZERO

IsQuerySizeError(r) == IsErr(r) /\ r.err.kind = "IncorrectQuerySize"

IsTooManyVariables(r) == r = Err(TooManyVariables)

\* what C10 says of the items yielded so far, given what a mismatched
\* polynomial's item is to be
BatchItemsAre(mismatched(_)) ==
    /\ Len(yielded) <= Len(mleBatch)
    /\ mpc = "iterator_ended" => Len(yielded) = Len(mleBatch)
    /\ \A k \in 1..Len(yielded) :
        IF mleBatch[k].mu = Len(q)
        THEN /\ IsOk(yielded[k])
             /\ yielded[k] = evaluate(mleBatch[k], Pow2(logW), q)
             /\ mleBatch[k] = mlePoly => yielded[k] = result1
        ELSE mismatched(yielded[k])

\* C10 as stated: batch_evaluate yields one item per polynomial, in order, then
\* ends; the item is Ok(evaluate(q)) when mu = |q| and Err(IncorrectQuerySize)
\* otherwise, whatever the other items are.
C10_BatchItems ==
    mpc \in {"iterating", "iterator_ended"} => BatchItemsAre(IsQuerySizeError)

\* C10, narrowed: the above for queries of fewer than 64 entries; for a longer
\* query the shared expansion fails and every item is Err(TooManyVariables).
C10_BatchItemsExpandable ==
    mpc \in {"iterating", "iterator_ended"} =>
        IF Len(q) < USIZE_BITS
        THEN BatchItemsAre(IsQuerySizeError)
        ELSE BatchItemsAre(IsTooManyVariables)

C10_Witness ==
    /\ mpc = "iterator_ended"
    /\ Len(mleBatch) = 2
    /\ Len(yielded) = 2
    /\ IsQuerySizeError(yielded[1])
    /\ IsOk(yielded[2])
    /\ yielded[2].val \notin {ZERO, ONE}
    /\ Len(q) = MaxVars


(***************************************************************************)
(* SpecPE: one call on a polynomial over P of iter_subpolynomials_high,    *)
(* the partial evaluations, inner_prod_subcube or subcube_evals.  logW is  *)
(* P::LOG_WIDTH and logWE is PE::LOG_WIDTH; PE::Scalar is P::Scalar.       *)
(***************************************************************************)

\* the polynomials of SpecPE: every table of logW..MaxVars variables, packed
PEValueInputs(lw) ==
    UNION {{PackScalars(t, Pow2(lw)) : t \in Tables(Pow2(mu))} : mu \in lw..MaxVars}

PCSIdle ==
    /\ pc = "idle"
    /\ self = [n_vars |-> 0, log_num_polys |-> 0, inner_n_vars |-> 0]
    /\ polys = <<>>
    /\ commitment = NoCommitment
    /\ committed = NoCommitment
    /\ challenger = NewChallenger(0)
    /\ prover_challenger = NewChallenger(0)
    /\ verifier_challenger = NewChallenger(0)
    /\ proveQuery = <<>>
    /\ proof = NoProof
    /\ verifyQuery = <<>>
    /\ values = <<>>
    /\ ret = NoRet
    /\ innerCalls = <<>>
    /\ work = <<>>
    /\ provePolys = <<>>

InitPE ==
    /\ PCSIdle
    /\ logW \in 0..MaxLogWidth
    /\ logWE \in 0..MaxLogWidth
    /\ mleVals \in PEValueInputs(logW)
    /\ mlePoly = from_values(mleVals, Pow2(logW)).val
    /\ mpc = "ready"
    /\ q = <<>>
    /\ result1 = NoRet
    /\ result2 = NoRet
    /\ partial_result = MLE(0, <<>>)
    /\ index = 0
    /\ splits = <<>>
    /\ mleBatch = <<>>
    /\ basis_eval = NoRet
    /\ yielded = <<>>
    /\ argVars = 0
    /\ dst = <<>>
    /\ expanded_query = <<>>

\* let mut iter = poly.iter_subpolynomials_high(n_vars)
IterSubpolynomialsHigh ==
    /\ mpc = "ready"
    /\ \E n \in 0..(MaxVars + 1) :
        /\ argVars' = n
        /\ result1' = iter_subpolynomials_high(mlePoly, Pow2(logW), n)
    /\ mpc' = IF IsOk(result1') THEN "subpolys" ELSE "subpolys_failed"
    /\ UNCHANGED <<pcsVars, q, mleVals, mlePoly, result2, partial_result, index, splits,
                   mleBatch, basis_eval, yielded, logWE, dst, expanded_query>>

\* iter.next(): the next subpolynomial, or None after the last
SubpolyNext ==
    /\ mpc = "subpolys"
    /\ IF Len(yielded) < Len(result1.val)
       THEN /\ yielded' = Append(yielded, result1.val[Len(yielded) + 1])
            /\ mpc' = "subpolys"
       ELSE /\ yielded' = yielded
            /\ mpc' = "subpolys_ended"
    /\ UNCHANGED <<pcsVars, peVars, q, mleVals, mlePoly, result1, result2, partial_result,
                   index, splits, mleBatch, basis_eval>>

\* the queries handed to the partial evaluations: up to one entry too many
PartialQueries(mu) == UNION {Queries(k) : k \in 0..(mu + 1)}

\* poly.evaluate_partial_low::<PE>(&q)
EvaluatePartialLow ==
    /\ mpc = "ready"
    /\ \E query \in PartialQueries(mlePoly.mu) :
        /\ q' = query
        /\ result1' = evaluate_partial_low(mlePoly, Pow2(logW), Pow2(logWE), query)
    /\ mpc' = "partial_low"
    /\ UNCHANGED <<pcsVars, peVars, mleVals, mlePoly, result2, partial_result, index, splits,
                   mleBatch, basis_eval, yielded>>

\* the polynomials over PE handed to evaluate_partial_low_into as out: zeros, or
\* all ONE, of n variables
OutPolys(n, WE) ==
    IF IsErr(zeros(n, WE)) THEN {}
    ELSE {zeros(n, WE).val,
          MLE(n, [c \in 1..Len(zeros(n, WE).val.evals) |-> [lane \in 1..WE |-> ONE]])}

\* poly.evaluate_partial_low_into::<PE>(&q, &mut out); partial_result is out
EvaluatePartialLowInto ==
    /\ mpc = "ready"
    /\ \E query \in PartialQueries(mlePoly.mu) :
       \E out \in OutPolys(mlePoly.mu - Len(query), Pow2(logWE))
                    \cup OutPolys(mlePoly.mu, Pow2(logWE)) :
       \E into \in {evaluate_partial_low_into(mlePoly, Pow2(logW), Pow2(logWE), query, out)} :
        /\ q' = query
        /\ result2' = Ok(out)
        /\ result1' = into.res
        /\ partial_result' = into.out
    /\ mpc' = "partial_low_into"
    /\ UNCHANGED <<pcsVars, peVars, mleVals, mlePoly, index, splits, mleBatch, basis_eval,
                   yielded>>

\* poly.evaluate_partial_high::<PE>(&q)
EvaluatePartialHigh ==
    /\ mpc = "ready"
    /\ \E query \in PartialQueries(mlePoly.mu) :
        /\ q' = query
        /\ result1' = evaluate_partial_high(mlePoly, Pow2(logW), Pow2(logWE), query)
    /\ mpc' = "partial_high"
    /\ UNCHANGED <<pcsVars, peVars, mleVals, mlePoly, result2, partial_result, index, splits,
                   mleBatch, basis_eval, yielded>>

\* the slices of PE handed to inner_prod_subcube: of 0, 3 and every power of two
\* up to 2^(mu + 1) packed values, holding all ONE or 1, x, x + 1, 0, 1, ...
ExpandedQueries(mu, WE) ==
    UNION {{PackScalars([i \in 1..(len * WE) |-> ONE], WE),
            PackScalars([i \in 1..(len * WE) |-> i % 4], WE)} :
           len \in {0, 3} \cup {Pow2(k) : k \in 0..(mu + 1)}}

\* MultilinearPoly::<PE>::inner_prod_subcube(&poly, index, &expanded_query)
InnerProdSubcube ==
    /\ mpc = "ready"
    /\ \E i \in 0..Pow2(mlePoly.mu), e \in ExpandedQueries(mlePoly.mu, Pow2(logWE)) :
        /\ index' = i
        /\ expanded_query' = e
        /\ result1' = inner_prod_subcube(mlePoly, Pow2(logW), Pow2(logWE), i, e)
    /\ mpc' = "inner_prod"
    /\ UNCHANGED <<pcsVars, q, mleVals, mlePoly, result2, partial_result, splits, mleBatch,
                   basis_eval, yielded, logWE, argVars, dst>>

\* the slices of PE handed to subcube_evals as dst: all ONE, of the length that
\* holds 2^n scalars when there is one, and of one packed value more
DstSlices(n, WE) ==
    {[c \in 1..len |-> [lane \in 1..WE |-> ONE]] :
        len \in {Pow2(n) \div WE, (Pow2(n) \div WE) + 1}}

\* MultilinearPoly::<PE>::subcube_evals(&poly, vars, index, &mut dst); result2 is
\* dst as it was handed over
SubcubeEvals ==
    /\ mpc = "ready"
    /\ \E v \in 0..(mlePoly.mu + 1), i \in 0..Pow2(mlePoly.mu) :
       \E d \in DstSlices(v, Pow2(logWE)) :
       \E out \in {subcube_evals(mlePoly, Pow2(logW), Pow2(logWE), v, i, d)} :
        /\ argVars' = v
        /\ index' = i
        /\ result2' = Ok(d)
        /\ result1' = out.res
        /\ dst' = out.dst
    /\ mpc' = "subcube_evals"
    /\ UNCHANGED <<pcsVars, q, mleVals, mlePoly, partial_result, splits, mleBatch,
                   basis_eval, yielded, logWE, expanded_query>>

NextPE ==
    \/ IterSubpolynomialsHigh
    \/ SubpolyNext
    \/ EvaluatePartialLow
    \/ EvaluatePartialLowInto
    \/ EvaluatePartialHigh
    \/ InnerProdSubcube
    \/ SubcubeEvals

SpecPE == InitPE /\ [][NextPE]_vars

\* the scalar of mleVals at hypercube index i
evals_scalar(i) == mleVals[(i \div Pow2(logW)) + 1][(i % Pow2(logW)) + 1]

IsArgumentRangeError(r) == IsErr(r) /\ r.err.kind = "ArgumentRangeError"

\* C11: for log2(W) <= n_vars <= mu, iter_subpolynomials_high(n_vars) yields
\* exactly 2^(mu - n_vars) polynomials and then None; the t-th has n_vars variables
\* and its scalars are those of the original at t * 2^n_vars .. (t + 1) * 2^n_vars - 1;
\* for n_vars outside that range it returns ArgumentRangeError.
C11_SubpolynomialsHigh ==
    mpc \in {"subpolys", "subpolys_ended", "subpolys_failed"} =>
        LET W == Pow2(logW)
            mu == log2(Len(mleVals) * W)
        IN  IF logW <= argVars /\ argVars <= mu
            THEN /\ mpc # "subpolys_failed"
                 /\ Len(yielded) <= Pow2(mu - argVars)
                 /\ mpc = "subpolys_ended" => Len(yielded) = Pow2(mu - argVars)
                 /\ \A t \in 0..(Len(yielded) - 1) :
                       /\ At(yielded, t).mu = argVars
                       /\ iter_packed_slice(At(yielded, t).evals, W)
                              = [i \in 1..Pow2(argVars) |->
                                    evals_scalar(t * Pow2(argVars) + i - 1)]
            ELSE /\ mpc = "subpolys_failed"
                 /\ IsArgumentRangeError(result1)
                 /\ yielded = <<>>

C11_Witness ==
    /\ mpc = "subpolys_ended"
    /\ logW = 1
    /\ argVars = 2
    /\ Len(yielded) = 2
    /\ iter_packed_slice(yielded[1].evals, 2) = <<0, 0, 0, 0>>
    /\ iter_packed_slice(yielded[2].evals, 2) = <<0, 0, 2, 0>>
    /\ mlePoly.mu = 3


\* the scalars of a polynomial over PE
PEScalars(p) == iter_packed_slice(p.evals, Pow2(logWE))

\* the sum over t in [0, 2^k) of expand(q)[t] * evals_scalar[i * 2^k + t]
RECURSIVE LowSum(_, _)
LowSum(i, t) ==
    IF t >= Pow2(Len(q)) THEN ZERO
    ELSE FAdd(FMul(eval_basis(q, t), evals_scalar(i * Pow2(Len(q)) + t)), LowSum(i, t + 1))

\* p has mu - k variables and its scalar at every i is LowSum(i, 0)
IsLowPartial(p) ==
    /\ p.mu = mlePoly.mu - Len(q)
    /\ PEScalars(p) = [i \in 1..Pow2(mlePoly.mu - Len(q)) |-> LowSum(i - 1, 0)]

\* C12 as stated: for k <= mu and 2^(mu-k) >= WIDTH(PE), whatever the widths of
\* P and PE, evaluate_partial_low returns, and evaluate_partial_low_into leaves
\* in out, the polynomial of mu - k variables whose scalar at i is the sum over t
\* of expand(q)[t] * evals_scalar[i * 2^k + t].
C12_PartialLow ==
    (/\ mpc \in {"partial_low", "partial_low_into"}
     /\ Len(q) <= mlePoly.mu
     /\ Pow2(mlePoly.mu - Len(q)) >= Pow2(logWE)) =>
        /\ mpc = "partial_low" => IsOk(result1) /\ IsLowPartial(result1.val)
        /\ (mpc = "partial_low_into" /\ result2.val.mu = mlePoly.mu - Len(q)) =>
               IsOk(result1) /\ IsLowPartial(partial_result)

\* the same, for P and PE of equal width only
C12_PartialLowEqualWidths ==
    logW = logWE => C12_PartialLow


\* the sum over t in [0, 2^k) of expand(q)[t] * evals_scalar[t * 2^(mu-k) + i]
RECURSIVE HighSum(_, _)
HighSum(i, t) ==
    IF t >= Pow2(Len(q)) THEN ZERO
    ELSE FAdd(FMul(eval_basis(q, t), evals_scalar(t * Pow2(mlePoly.mu - Len(q)) + i)),
              HighSum(i, t + 1))

\* C13 as stated: for k <= mu and 2^(mu-k) >= WIDTH(PE), whatever the width of P,
\* evaluate_partial_high returns Ok of the polynomial of mu - k variables whose
\* scalar at i is the sum over t of expand(q)[t] * evals_scalar[t * 2^(mu-k) + i].
C13_PartialHigh ==
    (/\ mpc = "partial_high"
     /\ Len(q) <= mlePoly.mu
     /\ Pow2(mlePoly.mu - Len(q)) >= Pow2(logWE)) =>
        /\ IsOk(result1)
        /\ result1.val.mu = mlePoly.mu - Len(q)
        /\ PEScalars(result1.val) = [i \in 1..Pow2(mlePoly.mu - Len(q)) |-> HighSum(i - 1, 0)]

\* the same, for calls that leave at least WIDTH(P) scalars
C13_PartialHighWideEnough ==
    mlePoly.mu - Len(q) >= logW => C13_PartialHigh


\* the query is longer than mu, or the call would leave fewer than WIDTH(PE) scalars
TooNarrow == Len(q) > mlePoly.mu \/ mlePoly.mu - Len(q) < logWE

\* C14 as stated: evaluate_partial_low and evaluate_partial_high both return
\* IncorrectQuerySize with expected = mu, and no other error, when k <= mu and
\* 2^(mu-k) < WIDTH(PE), and likewise when k > mu.
C14_WidthConstraint ==
    (mpc \in {"partial_low", "partial_high"} /\ TooNarrow) =>
        result1 = Err(IncorrectQuerySize(mlePoly.mu))

\* the same, for evaluate_partial_high alone, and for evaluate_partial_low when k > mu
C14_WidthConstraintHigh ==
    /\ (mpc = "partial_high" /\ TooNarrow) => result1 = Err(IncorrectQuerySize(mlePoly.mu))
    /\ (mpc = "partial_low" /\ Len(q) > mlePoly.mu) =>
           result1 = Err(IncorrectQuerySize(mlePoly.mu))


\* the sum over t in [t, count) of the t-th scalar of expanded_query times
\* evals_scalar[base + t]
RECURSIVE SubcubeSum(_, _, _)
SubcubeSum(base, count, t) ==
    IF t >= count THEN ZERO
    ELSE FAdd(FMul(get_packed_slice(expanded_query, Pow2(logWE), t), evals_scalar(base + t)),
              SubcubeSum(base, count, t + 1))

\* what C15 says of one call of inner_prod_subcube
InnerProdAsClaimed ==
    IF ~is_power_of_two(Len(expanded_query))
    THEN result1 = Err(PowerOfTwoLengthRequired)
    ELSE LET q_vars == log2(Len(expanded_query))
         IN  IF q_vars > mlePoly.mu \/ index >= Pow2(mlePoly.mu - q_vars)
             THEN IsArgumentRangeError(result1)
             ELSE result1 = Ok(SubcubeSum(index * Pow2(q_vars), Pow2(q_vars), 0))

\* C15 as stated: for an expanded_query of 2^q_vars values with q_vars <= mu,
\* q_vars < log2(W) included, and index < 2^(mu - q_vars), inner_prod_subcube
\* returns the sum over t of expanded_query[t] * evals_scalar[index * 2^q_vars + t];
\* it returns PowerOfTwoLengthRequired for a length that is not a power of two and
\* ArgumentRangeError for q_vars > mu or index >= 2^(mu - q_vars).
C15_InnerProdSubcube == mpc = "inner_prod" => InnerProdAsClaimed

\* the same, for subcubes that start at the first lane of a packed value of P
C15_InnerProdSubcubeAligned ==
    (mpc = "inner_prod" /\ (index * Len(expanded_query)) % Pow2(logW) = 0) =>
        InnerProdAsClaimed


\* what C16 says of one call of subcube_evals; result2.val is dst before the call
SubcubeEvalsAsClaimed ==
    IF /\ Len(result2.val) * Pow2(logWE) = Pow2(argVars)
       /\ argVars <= mlePoly.mu
       /\ index < Pow2(mlePoly.mu - argVars)
    THEN /\ result1 = Ok("unit")
         /\ iter_packed_slice(dst, Pow2(logWE))
                = [i \in 1..Pow2(argVars) |-> evals_scalar(index * Pow2(argVars) + i - 1)]
    ELSE /\ IsArgumentRangeError(result1)
         /\ dst = result2.val

\* C16 as stated: whatever the widths of P and PE, when |dst| * WIDTH(PE) = 2^vars,
\* vars <= mu and index < 2^(mu - vars), subcube_evals returns Ok and leaves in dst
\* the scalars evals_scalar[index * 2^vars + i] for i in [0, 2^vars); when a
\* requirement is violated it returns ArgumentRangeError and leaves dst unchanged.
C16_SubcubeEvals == mpc = "subcube_evals" => SubcubeEvalsAsClaimed

\* the same, for P and PE of equal width only
C16_SubcubeEvalsEqualWidths ==
    logW = logWE => C16_SubcubeEvals


====
